---- MODULE Spec2Model ----
(***************************************************************************)
(* A model of the LC-3 virtual machine of src/index.c: process start-up    *)
(* (signal handler, terminal mode, argument check, image loading), the     *)
(* fetch–decode–execute loop with all sixteen opcodes and six trap         *)
(* routines, the memory-mapped keyboard registers, and the SIGINT handler. *)
(*                                                                         *)
(* Words are naturals in 0..65535; every C expression of type uint16_t is  *)
(* reduced modulo 2^16 where the C code truncates.  The 65,536-word        *)
(* memory array is zero-initialised; it is represented by the function of  *)
(* its non-zero cells (Mem reads a cell, mem_write stores one).            *)
(***************************************************************************)
EXTENDS Naturals, Integers, Sequences, FiniteSets

(***************************************************************************)
(* Program constants.                                                      *)
(***************************************************************************)
MEMORY_MAX == 65536

R_R0 == 0
R_R7 == 7
R_PC == 8
R_COND == 9
R_COUNT == 10

OP_BR == 0
OP_ADD == 1
OP_LD == 2
OP_ST == 3
OP_JSR == 4
OP_AND == 5
OP_LDR == 6
OP_STR == 7
OP_RTI == 8
OP_NOT == 9
OP_LDI == 10
OP_STI == 11
OP_JMP == 12
OP_RES == 13
OP_LEA == 14
OP_TRAP == 15

FL_POS == 1
FL_ZRO == 2
FL_NEG == 4

TRAP_GETC == 32
TRAP_OUT == 33
TRAP_PUTS == 34
TRAP_IN == 35
TRAP_PUTSP == 36
TRAP_HALT == 37

MR_KBSR == 65024
MR_KBDR == 65026

PC_START == 12288

\* getchar()'s end-of-file result (int -1).
EOF == -1

(***************************************************************************)
(* Bounds of the model.                                                    *)
(***************************************************************************)
\* Instructions executed in one run of the loop.
MaxSteps == 3
\* Bytes typed on the keyboard during one run.
MaxKeys == 2

(***************************************************************************)
(* 16-bit arithmetic.                                                      *)
(***************************************************************************)
Word == 0 .. 65535

U16(x) == x % 65536

RECURSIVE BitAnd(_, _)
BitAnd(a, b) ==
    IF a = 0 \/ b = 0 THEN 0
    ELSE (a % 2) * (b % 2) + 2 * BitAnd(a \div 2, b \div 2)

RECURSIVE BitOr(_, _)
BitOr(a, b) ==
    IF a = 0 THEN b
    ELSE IF b = 0 THEN a
    ELSE (IF a % 2 = 1 \/ b % 2 = 1 THEN 1 ELSE 0) + 2 * BitOr(a \div 2, b \div 2)

RECURSIVE Pow2(_)
Pow2(n) == IF n = 0 THEN 1 ELSE 2 * Pow2(n - 1)

Min(a, b) == IF a < b THEN a ELSE b

\* A sign extension that tests bit bit_count instead of bit bit_count - 1.
sign_extend_wrong_bit(x, bit_count) ==
    IF (x \div Pow2(bit_count)) % 2 = 1
    THEN U16(BitOr(x, 65535 * Pow2(bit_count)))
    ELSE x

\* x |= (0xFFFF << bit_count) when bit (bit_count - 1) of x is set; the bits
\* of x above bit_count - 1 are otherwise left as they are.
sign_extend(x, bit_count) ==
    IF (x \div Pow2(bit_count - 1)) % 2 = 1
    THEN U16(BitOr(x, 65535 * Pow2(bit_count)))
    ELSE x

\* (x << 8) | (x >> 8), truncated to uint16_t by the return type.
swap_16(x) == U16(BitOr(x * 256, x \div 256))

(***************************************************************************)
(* Memory: the array as the function of its non-zero cells.                *)
(***************************************************************************)
Mem(m, a) == IF a \in DOMAIN m THEN m[a] ELSE 0

mem_write(m, addr, val) ==
    IF val = 0
    THEN [x \in DOMAIN m \ {addr} |-> m[x]]
    ELSE [x \in DOMAIN m \cup {addr} |-> IF x = addr THEN val ELSE m[x]]

(***************************************************************************)
(* Standard input.  An io record holds the bytes typed and not yet read by *)
(* the process (q, what select() looks at), the bytes already moved into  *)
(* the stdio buffer by an earlier getchar() (buf), and whether the input   *)
(* has ended (eof).                                                        *)
(***************************************************************************)
\* select(1, &readfds, NULL, NULL, &timeout) != 0 with a zero timeout: the
\* descriptor is readable when bytes are pending on it or it is at end of
\* file (a read would not block).
check_key(io) == io.q # << >> \/ io.eof

\* getchar() returns without blocking.
getchar_ready(io) == io.buf # << >> \/ io.q # << >> \/ io.eof

\* getchar()'s int result: the next buffered byte, else the first byte of a
\* read() of everything pending, else EOF.
getchar_val(io) ==
    IF io.buf # << >> THEN Head(io.buf)
    ELSE IF io.q # << >> THEN Head(io.q)
    ELSE EOF

getchar_io(io) ==
    IF io.buf # << >> THEN [io EXCEPT !.buf = Tail(io.buf)]
    ELSE IF io.q # << >> THEN [io EXCEPT !.buf = Tail(io.q), !.q = << >>]
    ELSE io

(***************************************************************************)
(* mem_read: the value read, with the memory and input it leaves behind    *)
(* and the number of keyboard polls it made.                               *)
(***************************************************************************)
mem_read(m, io, address) ==
    IF address = MR_KBSR
    THEN IF check_key(io)
         THEN LET m1 == mem_write(m, MR_KBSR, 32768)
                  m2 == mem_write(m1, MR_KBDR, U16(getchar_val(io)))
              IN  [val |-> Mem(m2, address), memory |-> m2,
                   io |-> getchar_io(io), polled |-> 1]
         ELSE LET m1 == mem_write(m, MR_KBSR, 0)
              IN  [val |-> Mem(m1, address), memory |-> m1,
                   io |-> io, polled |-> 1]
    ELSE [val |-> Mem(m, address), memory |-> m, io |-> io, polled |-> 0]

\* update_flags with the NEG and POS results exchanged.
update_flags_swapped(rg, r) ==
    [rg EXCEPT ![R_COND] =
        IF rg[r] = 0 THEN FL_ZRO
        ELSE IF rg[r] \div 32768 # 0 THEN FL_POS
        ELSE FL_NEG]

update_flags(rg, r) ==
    [rg EXCEPT ![R_COND] =
        IF rg[r] = 0 THEN FL_ZRO
        ELSE IF rg[r] \div 32768 # 0 THEN FL_NEG
        ELSE FL_POS]

(***************************************************************************)
(* Operand fields of an instruction.                                       *)
(***************************************************************************)
Opcode(instr) == instr \div 4096
FieldDR(instr) == (instr \div 512) % 8
FieldSR1(instr) == (instr \div 64) % 8
FieldSR2(instr) == instr % 8
ImmFlag(instr) == (instr \div 32) % 2
Imm5(instr) == sign_extend(instr % 32, 5)
Offset6(instr) == sign_extend(instr % 64, 6)
PCoffset9(instr) == sign_extend(instr % 512, 9)
PCoffset11(instr) == sign_extend(instr % 2048, 11)
TrapVect(instr) == instr % 256

(***************************************************************************)
(* Instruction handlers.  A machine state s is a record                    *)
(*   regs, memory, io, running : the program's state,                      *)
(*   out    : the bytes the instruction wrote to standard output,          *)
(*   oob    : whether it read past the end of the memory array,            *)
(*   polled : how many times it polled the keyboard.                       *)
(* Each handler maps the state after the fetch to the state after the      *)
(* instruction.                                                            *)
(***************************************************************************)
\* A mem_read made by a handler, folded into the machine state.
ReadInto(s, r) ==
    [s EXCEPT !.memory = r.memory, !.io = r.io, !.polled = @ + r.polled]

\* ADD without the truncation of the sum to 16 bits.
ExecADDUnwrapped(s, instr) ==
    LET r0 == FieldDR(instr)
        r1 == FieldSR1(instr)
        v  == IF ImmFlag(instr) = 1
              THEN s.regs[r1] + Imm5(instr)
              ELSE s.regs[r1] + s.regs[FieldSR2(instr)]
    IN  [s EXCEPT !.regs = update_flags([s.regs EXCEPT ![r0] = v], r0)]

ExecADD(s, instr) ==
    LET r0 == FieldDR(instr)
        r1 == FieldSR1(instr)
        v  == IF ImmFlag(instr) = 1
              THEN U16(s.regs[r1] + Imm5(instr))
              ELSE U16(s.regs[r1] + s.regs[FieldSR2(instr)])
    IN  [s EXCEPT !.regs = update_flags([s.regs EXCEPT ![r0] = v], r0)]

ExecAND(s, instr) ==
    LET r0 == FieldDR(instr)
        r1 == FieldSR1(instr)
        v  == IF ImmFlag(instr) = 1
              THEN BitAnd(s.regs[r1], Imm5(instr))
              ELSE BitAnd(s.regs[r1], s.regs[FieldSR2(instr)])
    IN  [s EXCEPT !.regs = update_flags([s.regs EXCEPT ![r0] = v], r0)]

ExecNOT(s, instr) ==
    LET r0 == FieldDR(instr)
        r1 == FieldSR1(instr)
    IN  [s EXCEPT !.regs =
            update_flags([s.regs EXCEPT ![r0] = 65535 - s.regs[r1]], r0)]

\* BR that ignores the condition codes and always branches.
ExecBRAlways(s, instr) ==
    [s EXCEPT !.regs[R_PC] = U16(@ + PCoffset9(instr))]

ExecBR(s, instr) ==
    LET cond_flag == FieldDR(instr)
        pcoffset  == PCoffset9(instr)
    IN  IF BitAnd(cond_flag, s.regs[R_COND]) # 0
        THEN [s EXCEPT !.regs[R_PC] = U16(@ + pcoffset)]
        ELSE s

ExecJMP(s, instr) ==
    [s EXCEPT !.regs[R_PC] = s.regs[FieldSR1(instr)]]

ExecJSR(s, instr) ==
    LET cond_flag == (instr \div 2048) % 2
        rg == [s.regs EXCEPT ![R_R7] = s.regs[R_PC]]
    IN  IF cond_flag = 0
        THEN [s EXCEPT !.regs = [rg EXCEPT ![R_PC] = rg[FieldSR1(instr)]]]
        ELSE [s EXCEPT !.regs = [rg EXCEPT ![R_PC] = U16(@ + PCoffset11(instr))]]

ExecLD(s, instr) ==
    LET r0 == FieldDR(instr)
        r  == mem_read(s.memory, s.io, U16(s.regs[R_PC] + PCoffset9(instr)))
        s1 == ReadInto(s, r)
    IN  [s1 EXCEPT !.regs = update_flags([s.regs EXCEPT ![r0] = r.val], r0)]

\* LDI with one read instead of two: the pointer itself is loaded.
ExecLDIDirect(s, instr) ==
    LET r0 == FieldDR(instr)
        r  == mem_read(s.memory, s.io, U16(s.regs[R_PC] + PCoffset9(instr)))
        s1 == ReadInto(s, r)
    IN  [s1 EXCEPT !.regs = update_flags([s.regs EXCEPT ![r0] = r.val], r0)]

ExecLDI(s, instr) ==
    LET r0 == FieldDR(instr)
        p  == mem_read(s.memory, s.io, U16(s.regs[R_PC] + PCoffset9(instr)))
        s1 == ReadInto(s, p)
        r  == mem_read(s1.memory, s1.io, p.val)
        s2 == ReadInto(s1, r)
    IN  [s2 EXCEPT !.regs = update_flags([s.regs EXCEPT ![r0] = r.val], r0)]

ExecLDR(s, instr) ==
    LET r0 == FieldDR(instr)
        r1 == FieldSR1(instr)
        r  == mem_read(s.memory, s.io, U16(s.regs[r1] + Offset6(instr)))
        s1 == ReadInto(s, r)
    IN  [s1 EXCEPT !.regs = update_flags([s.regs EXCEPT ![r0] = r.val], r0)]

ExecLEA(s, instr) ==
    LET r0 == FieldDR(instr)
        v  == U16(s.regs[R_PC] + PCoffset9(instr))
    IN  [s EXCEPT !.regs = update_flags([s.regs EXCEPT ![r0] = v], r0)]

\* ST that also sets the flags from the register stored, as the loads do.
ExecSTSetsFlags(s, instr) ==
    LET r0 == FieldDR(instr)
    IN  [s EXCEPT !.memory =
            mem_write(@, U16(s.regs[R_PC] + PCoffset9(instr)), s.regs[r0]),
                  !.regs = update_flags(@, r0)]

ExecST(s, instr) ==
    LET r0 == FieldDR(instr)
    IN  [s EXCEPT !.memory =
            mem_write(@, U16(s.regs[R_PC] + PCoffset9(instr)), s.regs[r0])]

ExecSTI(s, instr) ==
    LET r0 == FieldDR(instr)
        p  == mem_read(s.memory, s.io, U16(s.regs[R_PC] + PCoffset9(instr)))
        s1 == ReadInto(s, p)
    IN  [s1 EXCEPT !.memory = mem_write(@, p.val, s.regs[r0])]

ExecSTR(s, instr) ==
    LET r0 == FieldDR(instr)
        r1 == FieldSR1(instr)
    IN  [s EXCEPT !.memory =
            mem_write(@, U16(s.regs[r1] + Offset6(instr)), s.regs[r0])]

(***************************************************************************)
(* Trap routines.  Each maps the state after R7 <- PC to the set of states *)
(* the routine can leave: empty while a blocking getchar() waits for       *)
(* input, several where the C code reads an indeterminate value.           *)
(***************************************************************************)
\* "Enter a character: " and "HALT\n" as bytes.
Prompt == <<69, 110, 116, 101, 114, 32, 97, 32, 99, 104, 97, 114, 97, 99,
            116, 101, 114, 58, 32>>
HaltText == <<72, 65, 76, 84, 10>>

\* Values an indeterminate 16-bit quantity is sampled from: the low 16 bits
\* of whatever pointer is left in (or was never written to) the slot of the
\* local c.
IndeterminateWords == {0, 65, 16386, 40960}

\* What a string scan prints once it has run off the end of the array.
IndeterminateTails == {<< >>, <<63>>}

TrapGETC(s) ==
    IF getchar_ready(s.io)
    THEN {[s EXCEPT !.io = getchar_io(s.io),
                    !.regs = update_flags(
                        [s.regs EXCEPT ![R_R0] = U16(getchar_val(s.io))], R_R0)]}
    ELSE {}

\* putc((char)regs[R_R0], stdout)
TrapOUT(s) == {[s EXCEPT !.out = <<s.regs[R_R0] % 256>>]}

\* while (*c) { putc((char)*c, stdout); ++c; } from c = memory + a.
RECURSIVE ScanPUTS(_, _)
ScanPUTS(m, a) ==
    IF a >= MEMORY_MAX THEN [out |-> << >>, oob |-> TRUE]
    ELSE IF Mem(m, a) = 0 THEN [out |-> << >>, oob |-> FALSE]
    ELSE LET r == ScanPUTS(m, a + 1)
         IN  [out |-> <<Mem(m, a) % 256>> \o r.out, oob |-> r.oob]

\* The same walk for PUTSP: the low byte, then the high byte if non-zero.
RECURSIVE ScanPUTSP(_, _)
ScanPUTSP(m, a) ==
    IF a >= MEMORY_MAX THEN [out |-> << >>, oob |-> TRUE]
    ELSE IF Mem(m, a) = 0 THEN [out |-> << >>, oob |-> FALSE]
    ELSE LET r == ScanPUTSP(m, a + 1)
             char1 == Mem(m, a) % 256
             char2 == Mem(m, a) \div 256
         IN  [out |-> (IF char2 # 0 THEN <<char1, char2>> ELSE <<char1>>)
                        \o r.out,
              oob |-> r.oob]

\* A finished scan: what it printed, and past the end of the array whatever
\* the words found there make it print.
ScanOutcomes(s, r) ==
    IF r.oob
    THEN {[s EXCEPT !.out = r.out \o t, !.oob = TRUE] : t \in IndeterminateTails}
    ELSE {[s EXCEPT !.out = r.out]}

TrapPUTS(s) == ScanOutcomes(s, ScanPUTS(s.memory, s.regs[R_R0]))

TrapPUTSP(s) == ScanOutcomes(s, ScanPUTSP(s.memory, s.regs[R_R0]))

\* char ch = getchar(); putc(ch, stdout); regs[R_R0] = (uint16_t)c, where c
\* is the uint16_t* local of the TRAP_PUTS case, whose initialiser this case
\* jumps past: its value here is indeterminate.
TrapIN(s) ==
    IF getchar_ready(s.io)
    THEN {[s EXCEPT !.io = getchar_io(s.io),
                    !.out = Prompt \o <<U16(getchar_val(s.io)) % 256>>,
                    !.regs = update_flags([s.regs EXCEPT ![R_R0] = c], R_R0)]
            : c \in IndeterminateWords}
    ELSE {}

TrapHALT(s) == {[s EXCEPT !.out = HaltText, !.running = FALSE]}

\* An unknown vector treated as HALT.
TrapOtherHalts(s) == TrapHALT(s)

\* The switch on the trap vector has no default case.
TrapOther(s) == {s}

ExecTRAP(s, instr) ==
    LET s1 == [s EXCEPT !.regs[R_R7] = s.regs[R_PC]]
        v  == TrapVect(instr)
    IN  CASE v = TRAP_GETC  -> TrapGETC(s1)
          [] v = TRAP_OUT   -> TrapOUT(s1)
          [] v = TRAP_PUTS  -> TrapPUTS(s1)
          [] v = TRAP_IN    -> TrapIN(s1)
          [] v = TRAP_PUTSP -> TrapPUTSP(s1)
          [] v = TRAP_HALT  -> TrapHALT(s1)
          [] OTHER          -> TrapOther(s1)

\* RTI and RES treated as a return: PC <- R7.
ExecReservedReturns(s, instr) == [s EXCEPT !.regs[R_PC] = s.regs[R_R7]]

\* case OP_RES: case OP_RTI: default: break;
ExecReserved(s, instr) == s

\* switch (op): OP_RES, OP_RTI and default do nothing.
Execute(s, instr) ==
    LET op == Opcode(instr)
    IN  CASE op = OP_ADD  -> {ExecADD(s, instr)}
          [] op = OP_AND  -> {ExecAND(s, instr)}
          [] op = OP_NOT  -> {ExecNOT(s, instr)}
          [] op = OP_BR   -> {ExecBR(s, instr)}
          [] op = OP_JMP  -> {ExecJMP(s, instr)}
          [] op = OP_JSR  -> {ExecJSR(s, instr)}
          [] op = OP_LD   -> {ExecLD(s, instr)}
          [] op = OP_LDI  -> {ExecLDI(s, instr)}
          [] op = OP_LDR  -> {ExecLDR(s, instr)}
          [] op = OP_LEA  -> {ExecLEA(s, instr)}
          [] op = OP_ST   -> {ExecST(s, instr)}
          [] op = OP_STI  -> {ExecSTI(s, instr)}
          [] op = OP_STR  -> {ExecSTR(s, instr)}
          [] op = OP_TRAP -> ExecTRAP(s, instr)
          [] OTHER        -> {ExecReserved(s, instr)}

\* The fetch without the increment of PC.
FetchNoIncrement(s) ==
    LET r == mem_read(s.memory, s.io, s.regs[R_PC])
    IN  [instr |-> r.val, state |-> ReadInto(s, r)]

\* uint16_t instr = mem_read(regs[R_PC]++): the word at the old PC, read
\* after PC has been incremented.
Fetch(s) ==
    LET r == mem_read(s.memory, s.io, s.regs[R_PC])
    IN  [instr |-> r.val,
         state |-> [ReadInto(s, r) EXCEPT !.regs[R_PC] = U16(@ + 1)]]

\* One iteration of the loop body from machine state s.
Iteration(s) ==
    LET f == Fetch(s)
    IN  {[instr |-> f.instr, state |-> t] : t \in Execute(f.state, f.instr)}

(***************************************************************************)
(* Image files.  A file is a record: whether fopen() succeeds, and its     *)
(* bytes.  fread() stores each pair of bytes as one uint16_t of the        *)
(* little-endian host, first byte low.                                     *)
(***************************************************************************)
HostWord(bytes, i) == bytes[i] + 256 * bytes[i + 1]

\* The words fread(p, sizeof(uint16_t), max_read, file) stores from p on,
\* each then byte-swapped in place.
RECURSIVE StoreWords(_, _, _, _, _)
StoreWords(m, bytes, origin, i, read) ==
    IF i >= read THEN m
    ELSE StoreWords(mem_write(m, origin + i, swap_16(HostWord(bytes, 3 + 2 * i))),
                    bytes, origin, i + 1, read)

read_image_file(m, bytes) ==
    LET origin   == swap_16(HostWord(bytes, 1))
        max_read == U16(MEMORY_MAX - origin)
        read     == Min(max_read, (Len(bytes) - 2) \div 2)
    IN  StoreWords(m, bytes, origin, 0, read)

\* read_image()'s result: 0 when the file cannot be opened.
read_image(file) == IF file.openable THEN 1 ELSE 0

\* exit(n) as the status the parent sees.
ExitStatus(n) == n % 256

UsageText == <<108, 99, 51, 32, 91, 105, 109, 97, 103, 101, 45, 102, 105, 108, 101, 93, 46, 46, 46, 10>>
FailedText == <<102, 97, 105, 108, 101, 100, 32, 116, 111, 32, 108, 111, 97, 100, 32, 105, 109, 97, 103, 101, 58, 32>>

(***************************************************************************)
(* Terminal settings: the set of c_lflag bits that are on.  original_tio   *)
(* is a zero-initialised global.                                           *)
(***************************************************************************)
TermSettings == {{"ICANON", "ECHO", "ISIG"}, {"ICANON", "ISIG"}}

\* new_tio.c_lflag &= ~ICANON & ~ECHO
RawMode(tio) == tio \ {"ICANON", "ECHO"}

(***************************************************************************)
(* Inputs: the guest programs and command lines the model runs.            *)
(***************************************************************************)
ADDr(dr, sr1, sr2) == OP_ADD * 4096 + dr * 512 + sr1 * 64 + sr2
ADDi(dr, sr1, imm) == OP_ADD * 4096 + dr * 512 + sr1 * 64 + 32 + (imm % 32)
ANDr(dr, sr1, sr2) == OP_AND * 4096 + dr * 512 + sr1 * 64 + sr2
ANDi(dr, sr1, imm) == OP_AND * 4096 + dr * 512 + sr1 * 64 + 32 + (imm % 32)
NOTr(dr, sr)       == OP_NOT * 4096 + dr * 512 + sr * 64 + 63
BRc(nzp, off)      == OP_BR * 4096 + nzp * 512 + (off % 512)
JMPr(base)         == OP_JMP * 4096 + base * 64
JSRo(off)          == OP_JSR * 4096 + 2048 + (off % 2048)
JSRRr(base)        == OP_JSR * 4096 + base * 64
LDo(dr, off)       == OP_LD * 4096 + dr * 512 + (off % 512)
LDIo(dr, off)      == OP_LDI * 4096 + dr * 512 + (off % 512)
LDRo(dr, base, off) == OP_LDR * 4096 + dr * 512 + base * 64 + (off % 64)
LEAo(dr, off)      == OP_LEA * 4096 + dr * 512 + (off % 512)
STo(sr, off)       == OP_ST * 4096 + sr * 512 + (off % 512)
STIo(sr, off)      == OP_STI * 4096 + sr * 512 + (off % 512)
STRo(sr, base, off) == OP_STR * 4096 + sr * 512 + base * 64 + (off % 64)
TRAPv(v)           == OP_TRAP * 4096 + v
RTIw               == OP_RTI * 4096
RESw               == OP_RES * 4096

\* A first instruction that gives a register (and COND) a value.
Setups ==
    { ADDi(0, 0, -1),     \* R0 = xFFFF, NEG
      ADDi(1, 1, 5),      \* R1 = 5, POS
      LEAo(0, 2),         \* R0 = x3003, the data word's address
      LDo(3, 2) }         \* R3 = the data word

\* The instruction under test, second in the program.
Tests ==
    { ADDi(0, 0, 1), ADDi(2, 0, -16), ADDr(2, 0, 0), ADDr(4, 1, 3),
      ANDi(4, 0, 15), ANDi(0, 0, 0), ANDr(5, 0, 3),
      NOTr(6, 0), NOTr(0, 0),
      BRc(7, 1), BRc(0, 1), BRc(4, -2), BRc(2, 1), BRc(1, 1),
      JMPr(0), JMPr(7), JSRo(1), JSRo(-3), JSRRr(0), JSRRr(7),
      LDo(5, 1), LDIo(5, 1), LDRo(5, 0, 0), LDRo(5, 3, 0), LDRo(2, 3, 2),
      LEAo(7, -1), LEAo(6, 255),
      STo(0, 1), STIo(0, 1), STIo(1, 1), STRo(1, 0, 0), STRo(0, 3, 1),
      TRAPv(TRAP_GETC), TRAPv(TRAP_OUT), TRAPv(TRAP_PUTS), TRAPv(TRAP_IN),
      TRAPv(TRAP_PUTSP), TRAPv(TRAP_HALT),
      TRAPv(0), TRAPv(31), TRAPv(38), TRAPv(255),
      RTIw, RESw }

\* The data word that follows the program.
DataWords == {170, MR_KBSR, 18505}

\* The bytes of an image file: origin, then the words, all big-endian.
RECURSIVE WordBytes(_)
WordBytes(ws) ==
    IF ws = << >> THEN << >>
    ELSE <<Head(ws) \div 256, Head(ws) % 256>> \o WordBytes(Tail(ws))

Image(origin, ws) == [openable |-> TRUE, bytes |-> WordBytes(<<origin>> \o ws)]

\* A path fopen() fails on.
Missing == [openable |-> FALSE, bytes |-> << >>]

\* setup; test; HALT; data, loaded at x3000.
TestPrograms ==
    { Image(PC_START, <<su, t, TRAPv(TRAP_HALT), d>>) :
        su \in Setups, t \in Tests, d \in DataWords }

\* JSR to a RET, and back to a HALT.
CallReturn == Image(PC_START, <<JSRo(1), TRAPv(TRAP_HALT), JMPr(7)>>)
\* PUTS, then IN.
PutsThenIn == Image(PC_START, <<LEAo(0, 2), TRAPv(TRAP_PUTS), TRAPv(TRAP_IN), 18505>>)
\* Two INs in a row.
InTwice == Image(PC_START, <<TRAPv(TRAP_IN), TRAPv(TRAP_IN), TRAPv(TRAP_HALT)>>)
\* GETC, then a poll of the keyboard status register.
GetcThenPoll == Image(PC_START, <<TRAPv(TRAP_GETC), LDIo(1, 1), TRAPv(TRAP_HALT), MR_KBSR>>)
\* Two polls of the keyboard status register.
PollTwice == Image(PC_START, <<LDIo(1, 2), LDIo(2, 1), TRAPv(TRAP_HALT), MR_KBSR>>)
\* Jump to xFFFF (R0 = -1) or to KBSR (R3 = xFE00) and fetch there.
JumpTop == Image(PC_START, <<ADDi(0, 0, -1), JMPr(0)>>)
JumpKbsr == Image(PC_START, <<LDo(3, 1), JMPr(3), MR_KBSR>>)
\* PUTS / PUTSP of the string at xFFFF.
PutsTop == Image(PC_START, <<ADDi(0, 0, -1), TRAPv(TRAP_PUTS), TRAPv(TRAP_HALT)>>)
PutspTop == Image(PC_START, <<ADDi(0, 0, -1), TRAPv(TRAP_PUTSP), TRAPv(TRAP_HALT)>>)
\* Jump to xFDFF, the word before KBSR, and execute what an image put there.
JumpNearKbsr == Image(PC_START, <<LDo(3, 1), JMPr(3), MR_KBSR - 1>>)
\* LDI / STI at xFDFF whose pointer is the word at KBSR, loaded as x4000.
LdiAtKbsr == Image(MR_KBSR - 1, <<LDIo(1, 0), 16384>>)
StiAtKbsr == Image(MR_KBSR - 1, <<STIo(3, 0), 16384>>)
\* JSR over a HALT to a JSRR R7, with R7 = x3001 from the JSR.
JsrrSeven == Image(PC_START, <<JSRo(1), TRAPv(TRAP_HALT), JSRRr(7)>>)
\* HALT at once.
HaltOnly == Image(PC_START, <<TRAPv(TRAP_HALT)>>)

\* Images loaded besides a program.
AtZero    == Image(0, <<4660, 22136>>)
AtTop     == Image(65535, <<LEAo(1, 0)>>)
AtTopLong == Image(65535, <<16961, 17475, 17989>>)
AtTopZero == Image(65535, <<0>>)
Overlay   == Image(PC_START + 1, <<NOTr(1, 1), 0, TRAPv(TRAP_HALT)>>)
OriginOnly == Image(16384, << >>)
At4000    == Image(16384, <<1911>>)

CommandLines ==
    {<< >>, <<Missing>>, <<HaltOnly, Missing>>, <<Missing, HaltOnly>>,
     <<CallReturn>>, <<PutsThenIn>>, <<InTwice>>, <<GetcThenPoll>>,
     <<PollTwice>>, <<JumpKbsr>>, <<HaltOnly>>,
     <<AtTop, JumpTop>>, <<AtTopLong, PutsTop>>, <<AtTopLong, PutspTop>>,
     <<AtTopZero, PutsTop>>, <<AtZero, HaltOnly>>, <<JumpTop, Overlay>>,
     <<OriginOnly, JumpTop>>, <<AtTopLong, AtZero, JumpTop>>,
     <<JsrrSeven>>, <<LdiAtKbsr, At4000, JumpNearKbsr>>, <<StiAtKbsr, JumpNearKbsr>>}
    \cup {<<p>> : p \in TestPrograms}

Keys == {0, 65}

(***************************************************************************)
(* The process.                                                            *)
(***************************************************************************)
VARIABLES
    pc,            \* where main() is: "signal", "tcgetattr", "tcsetattr",
                   \* "argc", "load", "loop", "exited"
    argv,          \* the image files named on the command line
    j,             \* the loader loop's index into argv
    tty,           \* the terminal's settings
    start_tio,     \* the terminal's settings when the process started
    original_tio,  \* the global of that name
    memory, regs, running,
    io,            \* standard input
    nkeys,         \* bytes typed so far
    exit_status,   \* the process's exit status, -1 while it runs
    sigint,        \* whether handle_interrupt ran
    out,           \* what the last action wrote to standard output
    instr,         \* the instruction the last iteration executed, -1 if none
    prev,          \* regs, memory and io before the last load or iteration
    nsteps,        \* iterations of the loop so far
    oob,           \* whether the last iteration read past the memory array
    polled,        \* keyboard polls made by the last iteration
    call           \* a call of sign_extend on its own: x, bit_count and the
                   \* value returned, -1 before it returns

vars == <<pc, argv, j, tty, start_tio, original_tio, memory, regs, running,
          io, nkeys, exit_status, sigint, out, instr, prev, nsteps, oob,
          polled, call>>

Machine == [regs |-> regs, memory |-> memory, io |-> io, running |-> running,
            out |-> << >>, oob |-> FALSE, polled |-> 0]

Snapshot == [regs |-> regs, memory |-> memory, io |-> io]

\* The process as it starts, on one of the command lines cmds.
Started(cmds, tios) ==
    /\ pc = "signal"
    /\ argv \in cmds
    /\ j = 0
    /\ start_tio \in tios
    /\ tty = start_tio
    /\ original_tio = {}
    /\ memory = << >>
    /\ regs = [r \in 0 .. R_COUNT - 1 |-> 0]
    /\ running = FALSE
    /\ io = [q |-> << >>, buf |-> << >>, eof |-> FALSE]
    /\ nkeys = 0
    /\ exit_status = -1
    /\ sigint = FALSE
    /\ out = << >>
    /\ instr = -1
    /\ prev = [regs |-> regs, memory |-> memory, io |-> io]
    /\ nsteps = 0
    /\ oob = FALSE
    /\ polled = 0

NoCall == [x |-> 0, bit_count |-> 1, ret |-> -1]

Init ==
    /\ Started(CommandLines, TermSettings)
    /\ call = NoCall

\* signal(SIGINT, handle_interrupt)
install_handler ==
    /\ pc = "signal"
    /\ pc' = "tcgetattr"
    /\ UNCHANGED <<call, argv, j, tty, start_tio, original_tio, memory, regs,
                   running, io, nkeys, exit_status, sigint, out, instr, prev,
                   nsteps, oob, polled>>

\* disable_input_buffering, first half: tcgetattr(STDIN_FILENO, &original_tio)
capture_tio ==
    /\ pc = "tcgetattr"
    /\ original_tio' = tty
    /\ pc' = "tcsetattr"
    /\ UNCHANGED <<call, argv, j, tty, start_tio, memory, regs, running, io, nkeys,
                   exit_status, sigint, out, instr, prev, nsteps, oob, polled>>

\* disable_input_buffering, second half: tcsetattr(..., &new_tio)
disable_input_buffering ==
    /\ pc = "tcsetattr"
    /\ tty' = RawMode(original_tio)
    /\ pc' = "argc"
    /\ UNCHANGED <<call, argv, j, start_tio, original_tio, memory, regs, running,
                   io, nkeys, exit_status, sigint, out, instr, prev, nsteps,
                   oob, polled>>

\* restore_input_buffering()
restore_input_buffering == tty' = original_tio

\* The argument check off by one.
TooFewArgsOffByOne(argc) == argc < 1

\* if (argc < 2): argc counts the program's own name.
TooFewArgs(argc) == argc < 2

\* if (argc < 2) { printf(usage); exit(2); }
check_args ==
    /\ pc = "argc"
    /\ IF TooFewArgs(Len(argv) + 1)
       THEN /\ out' = UsageText
            /\ exit_status' = ExitStatus(2)
            /\ pc' = "exited"
            /\ j' = j
       ELSE /\ pc' = "load"
            /\ j' = 1
            /\ UNCHANGED <<out, exit_status>>
    /\ UNCHANGED <<call, argv, tty, start_tio, original_tio, memory, regs, running,
                   io, nkeys, sigint, instr, prev, nsteps, oob, polled>>

\* One turn of the loader loop: if (!read_image(argv[j])) { ...; exit(1); }
load_image ==
    /\ pc = "load"
    /\ j <= Len(argv)
    /\ IF read_image(argv[j]) = 0
       THEN /\ out' = FailedText
            /\ exit_status' = ExitStatus(1)
            /\ pc' = "exited"
            /\ UNCHANGED <<j, memory, prev>>
       ELSE /\ memory' = read_image_file(memory, argv[j].bytes)
            /\ prev' = Snapshot
            /\ j' = j + 1
            /\ UNCHANGED <<out, exit_status, pc>>
    /\ UNCHANGED <<call, argv, tty, start_tio, original_tio, regs, running, io,
                   nkeys, sigint, instr, nsteps, oob, polled>>

\* regs[R_COND] = FL_ZRO; regs[R_PC] = PC_START; int running = 1;
start_loop ==
    /\ pc = "load"
    /\ j > Len(argv)
    /\ regs' = [regs EXCEPT ![R_COND] = FL_ZRO, ![R_PC] = PC_START]
    /\ running' = TRUE
    /\ pc' = "loop"
    /\ UNCHANGED <<call, argv, j, tty, start_tio, original_tio, memory, io, nkeys,
                   exit_status, sigint, out, instr, prev, nsteps, oob, polled>>

\* A loop that ignores the running flag.
LoopForever(r) == TRUE

\* while (running)
LoopCondition(r) == r

\* while (running) { ... }: one iteration.
step ==
    /\ pc = "loop"
    /\ LoopCondition(running)
    /\ nsteps < MaxSteps
    /\ \E o \in Iteration(Machine) :
          /\ instr' = o.instr
          /\ regs' = o.state.regs
          /\ memory' = o.state.memory
          /\ io' = o.state.io
          /\ running' = o.state.running
          /\ out' = o.state.out
          /\ oob' = o.state.oob
          /\ polled' = o.state.polled
    /\ prev' = Snapshot
    /\ nsteps' = nsteps + 1
    /\ UNCHANGED <<call, pc, argv, j, tty, start_tio, original_tio, nkeys,
                   exit_status, sigint>>

\* The loop ends and main() returns.
main_return ==
    /\ pc = "loop"
    /\ ~LoopCondition(running)
    /\ exit_status' = ExitStatus(0)
    /\ pc' = "exited"
    /\ UNCHANGED <<call, argv, j, tty, start_tio, original_tio, memory, regs,
                   running, io, nkeys, sigint, out, instr, prev, nsteps, oob,
                   polled>>

\* SIGINT, any time after the handler is installed.
handle_interrupt ==
    /\ pc \notin {"signal", "exited"}
    /\ restore_input_buffering
    /\ out' = <<10>>
    /\ exit_status' = ExitStatus(-2)
    /\ sigint' = TRUE
    /\ pc' = "exited"
    /\ UNCHANGED <<call, argv, j, start_tio, original_tio, memory, regs, running,
                   io, nkeys, instr, prev, nsteps, oob, polled>>

\* The user types a byte.  Nothing reads standard input before the loop, so
\* bytes typed earlier are the same as bytes typed as the loop starts.
key_press ==
    /\ pc = "loop"
    /\ ~io.eof
    /\ nkeys < MaxKeys
    /\ \E b \in Keys : io' = [io EXCEPT !.q = Append(@, b)]
    /\ nkeys' = nkeys + 1
    /\ UNCHANGED <<call, pc, argv, j, tty, start_tio, original_tio, memory, regs,
                   running, exit_status, sigint, out, instr, prev, nsteps,
                   oob, polled>>

\* Standard input reaches its end (a closed pipe, an exhausted file).
end_of_input ==
    /\ pc = "loop"
    /\ ~io.eof
    /\ io' = [io EXCEPT !.eof = TRUE]
    /\ UNCHANGED <<call, pc, argv, j, tty, start_tio, original_tio, memory, regs,
                   running, nkeys, exit_status, sigint, out, instr, prev,
                   nsteps, oob, polled>>

Next ==
    \/ install_handler
    \/ capture_tio
    \/ disable_input_buffering
    \/ check_args
    \/ load_image
    \/ start_loop
    \/ step
    \/ main_return
    \/ handle_interrupt
    \/ key_press
    \/ end_of_input

Spec == Init /\ [][Next]_vars

(***************************************************************************)
(* sign_extend on its own: one call, on any of CallWords and any width.    *)
(***************************************************************************)
CallWords ==
    {hi * 256 + lo : hi \in {0, 1, 2, 4, 8, 16, 32, 64, 127, 128, 255},
                     lo \in 0 .. 255}

InitCall ==
    /\ Started({<< >>}, {{"ICANON", "ECHO", "ISIG"}})
    /\ call \in [x : CallWords, bit_count : 1 .. 16, ret : {-1}]

\* 0xFFFF << bit_count is computed as an int, which 0xFFFF << 16 does not
\* fit: the shift sign_extend makes for a set bit 15 is undefined.
ShiftOverflows(x, bit_count) ==
    bit_count = 16 /\ (x \div Pow2(bit_count - 1)) % 2 = 1

\* uint16_t r = sign_extend(x, bit_count); any word where the shift is
\* undefined.
call_sign_extend ==
    /\ call.ret = -1
    /\ \E r \in IF ShiftOverflows(call.x, call.bit_count)
                THEN {call.x} \cup IndeterminateWords
                ELSE {sign_extend(call.x, call.bit_count)} :
          call' = [call EXCEPT !.ret = r]
    /\ UNCHANGED <<pc, argv, j, tty, start_tio, original_tio, memory, regs,
                   running, io, nkeys, exit_status, sigint, out, instr, prev,
                   nsteps, oob, polled>>

NextCall == call_sign_extend

CallSpec == InitCall /\ [][NextCall]_vars

(***************************************************************************)
(* Properties.  They speak of the last iteration of the loop through       *)
(* instr (the instruction it executed) and prev (the state it started      *)
(* from).                                                                  *)
(***************************************************************************)
Executed == nsteps > 0
LoopStarted == pc = "loop" \/ nsteps > 0

IsTrap(i, v) == Opcode(i) = OP_TRAP /\ TrapVect(i) = v

\* The flag for the sign of a word read as 16-bit two's complement.
SignFlag(v) == IF v = 0 THEN FL_ZRO ELSE IF v >= 32768 THEN FL_NEG ELSE FL_POS

\* PC as the handlers of the last iteration saw it.
IncrementedPC == U16(prev.regs[R_PC] + 1)

\* The byte the last iteration's getchar() returned, EOF if there was none.
CharRead == getchar_val(prev.io)

\* C1: after TRAP IN, R0 holds the character just read from standard input
\* and COND is set from that value.
C1_InStoresCharacter ==
    (Executed /\ IsTrap(instr, TRAP_IN) /\ CharRead # EOF)
        => /\ regs[R_R0] = CharRead
           /\ regs[R_COND] = SignFlag(CharRead)

\* C2: when the emulator stops after it has captured the terminal settings
\* and switched the terminal to raw mode, by a normal halt or by SIGINT, the
\* terminal is back to the settings it started with.
C2_TerminalRestoredOnStop ==
    (pc = "exited" /\ (sigint \/ (Executed /\ ~running))
                   /\ original_tio = start_tio)
        => tty = start_tio

\* The instructions that update the flags, and the register they set them from.
FlagUpdating(i) ==
    \/ Opcode(i) \in {OP_ADD, OP_AND, OP_NOT, OP_LD, OP_LDI, OP_LDR, OP_LEA}
    \/ IsTrap(i, TRAP_GETC)
    \/ IsTrap(i, TRAP_IN)

DestReg(i) == IF Opcode(i) = OP_TRAP THEN R_R0 ELSE FieldDR(i)

\* C3: once the loop has started COND is one of POS, ZRO, NEG, and right
\* after a flag-updating instruction it is the sign of the value now in the
\* destination register.
C3_CondIsSignOfDest ==
    LoopStarted =>
        /\ regs[R_COND] \in {FL_POS, FL_ZRO, FL_NEG}
        /\ (Executed /\ FlagUpdating(instr))
              => regs[R_COND] = SignFlag(regs[DestReg(instr)])

C3_Witness ==
    /\ Executed
    /\ Opcode(instr) = OP_LDI
    /\ regs[DestReg(instr)] = 32768
    /\ regs[R_COND] = FL_NEG

\* The image the loader has just loaded, read as big-endian words.
JustLoaded == pc = "load" /\ j >= 2
LoadedFile == argv[j - 1].bytes
BigEndian(bytes, i) == bytes[i] * 256 + bytes[i + 1]
ImageOrigin == BigEndian(LoadedFile, 1)
ImageCount == (Len(LoadedFile) - 2) \div 2
ImageWord(i) == BigEndian(LoadedFile, 3 + 2 * i)

\* C4: loading an image with origin O and payload W0..W(k-1) leaves
\* memory[O+i] = Wi for every i < min(k, 65536 - O) and every other cell as
\* it was, for every origin including 0.
C4_ImageLoadedAtOrigin ==
    JustLoaded =>
        LET n == Min(ImageCount, MEMORY_MAX - ImageOrigin)
        IN  /\ \A i \in 0 .. n - 1 :
                  Mem(memory, ImageOrigin + i) = ImageWord(i)
            /\ \A a \in DOMAIN memory \cup DOMAIN prev.memory :
                  (a < ImageOrigin \/ a >= ImageOrigin + n)
                      => Mem(memory, a) = Mem(prev.memory, a)

\* The last iteration was an LDR from address KBSR: its destination register
\* holds what the read returned.
ReadKbsr ==
    /\ Executed
    /\ Opcode(instr) = OP_LDR
    /\ U16(prev.regs[FieldSR1(instr)] + Offset6(instr)) = MR_KBSR

\* A typed byte was waiting to be read when the last iteration began.
KeyWaiting == prev.io.buf # << >> \/ prev.io.q # << >>

\* C5: a read of KBSR returns 0 when no key is ready; when one is, it
\* returns x8000 and leaves the key's byte in KBDR; either way memory[KBSR]
\* holds the value returned.
C5_KbsrReadReportsKey ==
    ReadKbsr =>
        /\ Mem(memory, MR_KBSR) = regs[FieldDR(instr)]
        /\ ~KeyWaiting => regs[FieldDR(instr)] = 0
        /\ KeyWaiting => /\ regs[FieldDR(instr)] = 32768
                         /\ Mem(memory, MR_KBDR) = CharRead

\* The last iteration executed a TRAP whose vector has no routine.
UnknownTrap ==
    /\ Executed
    /\ Opcode(instr) = OP_TRAP
    /\ TrapVect(instr) \notin TRAP_GETC .. TRAP_HALT

\* C6 as stated: a TRAP with an unknown vector leaves R0..R7, COND, memory
\* and the running flag as they were, and PC at its incremented value.
C6_UnknownTrapChangesNothing ==
    UnknownTrap =>
        /\ \A r \in R_R0 .. R_R7 : regs[r] = prev.regs[r]
        /\ regs[R_COND] = prev.regs[R_COND]
        /\ memory = prev.memory
        /\ running
        /\ regs[R_PC] = IncrementedPC

\* C6 amended: a TRAP with an unknown vector sets R7 to the incremented PC
\* and leaves R0..R6, COND, memory and the running flag as they were, with
\* PC at its incremented value.
C6_UnknownTrapOnlySavesR7 ==
    UnknownTrap =>
        /\ \A r \in R_R0 .. R_R7 - 1 : regs[r] = prev.regs[r]
        /\ regs[R_R7] = IncrementedPC
        /\ regs[R_COND] = prev.regs[R_COND]
        /\ memory = prev.memory
        /\ running
        /\ regs[R_PC] = IncrementedPC

C6_Witness ==
    /\ UnknownTrap
    /\ TrapVect(instr) = 255
    /\ prev.regs[R_R7] = 0
    /\ regs[R_R7] = PC_START + 2
    /\ regs[R_R0] = 65535

\* C7: in the loop, running is false exactly when the last instruction
\* executed was TRAP HALT; and once it is false no instruction is fetched or
\* executed and registers and memory no longer change.
C7_HaltEndsLoop ==
    [][/\ LoopStarted' => (~running' <=> (Executed' /\ IsTrap(instr', TRAP_HALT)))
       /\ (LoopStarted /\ ~running)
             => /\ ~running'
                /\ UNCHANGED <<regs, memory, instr, nsteps, prev>>]_vars

C7_Witness ==
    /\ pc = "exited"
    /\ ~sigint
    /\ nsteps = 2
    /\ ~running
    /\ IsTrap(instr, TRAP_HALT)

\* C8: a SIGINT at any point after the handler is installed leaves the
\* terminal with the settings it had when the emulator started, prints a
\* newline and exits with status 254.
C8_SigintRestoresTerminal ==
    sigint => /\ pc = "exited"
              /\ tty = start_tio
              /\ out = <<10>>
              /\ exit_status = 254

Unopenable == \E i \in 1 .. Len(argv) : ~argv[i].openable

\* C9: with no image argument the exit code is 2, with an image that cannot
\* be opened it is 1, and in both cases no instruction is ever fetched; the
\* loop is entered only after every image was loaded; a clean HALT exits
\* with code 0.  (Exits by SIGINT aside.)
C9_ExitCodes ==
    /\ (Len(argv) = 0 \/ Unopenable)
          => /\ ~LoopStarted
             /\ instr = -1
             /\ (pc = "exited" /\ ~sigint)
                   => exit_status = IF Len(argv) = 0 THEN 2 ELSE 1
    /\ LoopStarted => (Len(argv) > 0 /\ ~Unopenable /\ j = Len(argv) + 1)
    /\ (pc = "exited" /\ ~sigint /\ LoopStarted)
          => (exit_status = 0 /\ IsTrap(instr, TRAP_HALT))

C9_Witness ==
    /\ pc = "exited"
    /\ Len(argv) = 2
    /\ argv[1].openable
    /\ ~argv[2].openable
    /\ exit_status = 1
    /\ memory # << >>

\* C10: the fetch advances PC by exactly 1 modulo 2^16 before the handler
\* runs, so BR, LD, LDI, ST, STI, LEA, JSR and TRAP work from the
\* incremented PC; the first fetch is from x3000 with COND = ZRO.
C10_HandlersSeeIncrementedPC ==
    Executed =>
        LET op  == Opcode(instr)
            dr  == FieldDR(instr)
            a9  == U16(IncrementedPC + PCoffset9(instr))
            ptr == Mem(prev.memory, a9)
        IN  /\ nsteps = 1 => /\ prev.regs[R_PC] = PC_START
                             /\ prev.regs[R_COND] = FL_ZRO
                             /\ instr = Mem(prev.memory, PC_START)
            /\ op \notin {OP_BR, OP_JMP, OP_JSR} => regs[R_PC] = IncrementedPC
            /\ op = OP_BR =>
                  regs[R_PC] = IF BitAnd(dr, prev.regs[R_COND]) # 0
                               THEN a9 ELSE IncrementedPC
            /\ op = OP_LEA => regs[dr] = a9
            /\ op = OP_LD => regs[dr] = Mem(memory, a9)
            /\ op = OP_ST => Mem(memory, a9) = prev.regs[dr]
            /\ (op = OP_LDI /\ a9 \notin {MR_KBSR, MR_KBDR})
                  => regs[dr] = Mem(memory, ptr)
            /\ (op = OP_STI /\ a9 \notin {MR_KBSR, MR_KBDR})
                  => Mem(memory, ptr) = prev.regs[dr]
            /\ op = OP_JSR => regs[R_R7] = IncrementedPC
            /\ (op = OP_JSR /\ (instr \div 2048) % 2 = 1)
                  => regs[R_PC] = U16(IncrementedPC + PCoffset11(instr))
            /\ op = OP_TRAP => regs[R_R7] = IncrementedPC

C10_Witness ==
    /\ Executed
    /\ Opcode(instr) = OP_LEA
    /\ prev.regs[R_PC] = 65535
    /\ regs[R_PC] = 0
    /\ regs[FieldDR(instr)] = 0

\* The call of sign_extend has returned.
Returned == call.ret # -1
\* Bit bit_count - 1 of the argument, the sign of the field.
CallSignBit == (call.x \div Pow2(call.bit_count - 1)) % 2
\* ~((1 << n) - 1) as a 16-bit word.
HighBits(n) == 65536 - Pow2(n)
\* The argument is a field of bit_count bits: nothing set above it.
CallMasked == call.x < Pow2(call.bit_count)

SignedField(i, n) ==
    LET f == i % Pow2(n)
    IN  IF f >= Pow2(n - 1) THEN f - Pow2(n) ELSE f

\* PC + PCoffset9 as the last instruction computed it.
PCRelative == (IncrementedPC + SignedField(instr, 9)) % 65536

\* C12 (as claimed): LDI, with memory[PC + PCoffset9] = A before it, leaves
\* DR = memory[A] and COND set from DR, whatever the two addresses are, KBSR
\* included.
C12_LdiLoadsThroughStoredPointer ==
    (Executed /\ Opcode(instr) = OP_LDI) =>
        LET dr == FieldDR(instr)
            A  == Mem(prev.memory, PCRelative)
        IN  /\ regs[dr] = Mem(memory, A)
            /\ regs[R_COND] = SignFlag(regs[dr])

\* C12: LDI leaves DR = memory[A] and COND set from DR, where A is the word
\* memory[PC + PCoffset9] held before the instruction, or, when that address
\* is KBSR, the keyboard status the read of it stores there; when A is KBSR,
\* memory[A] is likewise the status that the read stores.
C12_LdiLoadsThroughReadPointer ==
    (Executed /\ Opcode(instr) = OP_LDI) =>
        LET dr == FieldDR(instr)
            A  == IF PCRelative = MR_KBSR
                  THEN Mem(memory, MR_KBSR)
                  ELSE Mem(prev.memory, PCRelative)
        IN  /\ regs[dr] = Mem(memory, A)
            /\ regs[R_COND] = SignFlag(regs[dr])

\* An LDI whose pointer is the word at KBSR, which held x4000, has loaded
\* memory[0] or memory[x8000] instead of memory[x4000].
C12_Witness ==
    /\ Executed
    /\ Opcode(instr) = OP_LDI
    /\ PCRelative = MR_KBSR
    /\ Mem(prev.memory, MR_KBSR) = 16384
    /\ Mem(memory, MR_KBSR) \in {0, 32768}
    /\ regs[FieldDR(instr)] = Mem(memory, Mem(memory, MR_KBSR))

\* C13: after TRAP GETC, R0 holds the byte read in its low 8 bits and 0 in
\* its high byte, so R0 <= x00FF and COND is POS or ZRO, never NEG, whatever
\* the host's character read returned.
C13_GetcLeavesByte ==
    (Executed /\ IsTrap(instr, TRAP_GETC)) =>
        /\ regs[R_R0] <= 255
        /\ CharRead # EOF => regs[R_R0] = CharRead
        /\ regs[R_COND] \in {FL_POS, FL_ZRO}

\* C14: JSR/JSRR saves the incremented PC in R7; with bit 11 set the new PC
\* is the incremented PC plus the sign-extended PCoffset11, and with bit 11
\* clear it is the value BaseR held before the instruction, for every BaseR
\* in R0..R7.  JMP sets PC to what its base register held, so that JMP R7
\* returns to the instruction after the JSR.  Neither changes COND.
C14_JsrSavesAndJumps ==
    Executed =>
        LET op   == Opcode(instr)
            base == (instr \div 64) % 8
        IN  /\ op = OP_JSR => regs[R_R7] = IncrementedPC
            /\ (op = OP_JSR /\ (instr \div 2048) % 2 = 1) =>
                  regs[R_PC] = (IncrementedPC + SignedField(instr, 11)) % 65536
            /\ (op = OP_JSR /\ (instr \div 2048) % 2 = 0) =>
                  regs[R_PC] = prev.regs[base]
            /\ op = OP_JMP =>
                  /\ regs[R_PC] = prev.regs[base]
                  /\ regs[R_R7] = prev.regs[R_R7]
            /\ op \in {OP_JSR, OP_JMP} => regs[R_COND] = prev.regs[R_COND]

\* The second operand of ADD and AND: R[SR2], or the 5-bit immediate as a
\* 16-bit two's-complement word.
Operand ==
    IF (instr \div 32) % 2 = 1
    THEN SignedField(instr, 5) % 65536
    ELSE prev.regs[instr % 8]

\* C15: ADD leaves (R[SR1] + operand) mod 2^16 in DR, AND leaves
\* R[SR1] & operand and NOT the 16-bit complement of R[SR1], with COND set
\* from the result; no other general-purpose register changes, PC is the
\* incremented PC and memory is unchanged.
C15_AluResults ==
    (Executed /\ Opcode(instr) \in {OP_ADD, OP_AND, OP_NOT}) =>
        LET op  == Opcode(instr)
            dr  == (instr \div 512) % 8
            sr1 == prev.regs[(instr \div 64) % 8]
        IN  /\ op = OP_ADD => regs[dr] = (sr1 + Operand) % 65536
            /\ op = OP_AND => regs[dr] = BitAnd(sr1, Operand)
            /\ op = OP_NOT => regs[dr] = 65535 - sr1
            /\ regs[dr] \in 0 .. 65535
            /\ regs[R_COND] = SignFlag(regs[dr])
            /\ \A r \in (R_R0 .. R_R7) \ {dr} : regs[r] = prev.regs[r]
            /\ regs[R_PC] = IncrementedPC
            /\ memory = prev.memory

\* An ADD has wrapped: xFFFF + 1 = 0, with COND = ZRO.
C15_Witness ==
    /\ Executed
    /\ Opcode(instr) = OP_ADD
    /\ prev.regs[(instr \div 64) % 8] = 65535
    /\ Operand = 1
    /\ regs[(instr \div 512) % 8] = 0
    /\ regs[R_COND] = FL_ZRO

\* C16: every memory access of an instruction or trap handler is to a word
\* index in 0..65535; PUTS and PUTSP scan from memory[R0] and stop at the
\* first zero word without ever reading beyond address xFFFF, whatever R0 and
\* the memory hold.
C16_AccessesStayInMemory ==
    Executed => ~oob

\* The instructions the claim lists as leaving COND alone.
LeavesCond(i) ==
    \/ Opcode(i) \in {OP_BR, OP_JMP, OP_JSR, OP_ST, OP_STI, OP_STR, OP_RTI,
                       OP_RES}
    \/ \E v \in {TRAP_OUT, TRAP_PUTS, TRAP_PUTSP, TRAP_HALT} : IsTrap(i, v)

\* The memory cells the last iteration changed.
ChangedCells ==
    {a \in DOMAIN memory \cup DOMAIN prev.memory :
        Mem(memory, a) # Mem(prev.memory, a)}

\* The cell a store addresses: PC + PCoffset9 for ST, BaseR + offset6 for
\* STR, and for STI the pointer read from PC + PCoffset9.
StoreAddress ==
    CASE Opcode(instr) = OP_ST  -> PCRelative
      [] Opcode(instr) = OP_STR ->
            (prev.regs[(instr \div 64) % 8] + SignedField(instr, 6)) % 65536
      [] Opcode(instr) = OP_STI ->
            IF PCRelative = MR_KBSR
            THEN Mem(memory, MR_KBSR)
            ELSE Mem(prev.memory, PCRelative)

\* R0..R7 are as they were before the last iteration.
GeneralRegistersKept == \A r \in R_R0 .. R_R7 : regs[r] = prev.regs[r]

\* C17 (as claimed): COND changes only when a flag-updating instruction
\* executes (BR, JMP, JSR/JSRR, ST, STI, STR, RTI, RES and the OUT, PUTS, PUTSP
\* and HALT traps leave it unchanged), and ST, STI and STR change at most the
\* one addressed memory cell and no general-purpose register.
C17_StoresChangeOneCell ==
    Executed =>
        /\ (LeavesCond(instr) \/ ~FlagUpdating(instr)) =>
              regs[R_COND] = prev.regs[R_COND]
        /\ Opcode(instr) \in {OP_ST, OP_STI, OP_STR} =>
              /\ ChangedCells \subseteq {StoreAddress}
              /\ GeneralRegistersKept

\* C17: COND changes only when a flag-updating instruction executes, and ST,
\* STI and STR change no general-purpose register and at most the one
\* addressed memory cell, except that an STI whose pointer is read from KBSR
\* also changes KBSR and KBDR as that read polls the keyboard.
C17_StoresChangeOneCellOrPoll ==
    Executed =>
        /\ (LeavesCond(instr) \/ ~FlagUpdating(instr)) =>
              regs[R_COND] = prev.regs[R_COND]
        /\ Opcode(instr) \in {OP_ST, OP_STI, OP_STR} =>
              /\ ChangedCells \subseteq
                    {StoreAddress} \cup
                    (IF Opcode(instr) = OP_STI /\ PCRelative = MR_KBSR
                     THEN {MR_KBSR, MR_KBDR} ELSE {})
              /\ GeneralRegistersKept

\* An STI with its pointer at KBSR has changed KBSR as well as the cell it
\* stored to, with COND as it was.
C17_Witness ==
    /\ Executed
    /\ Opcode(instr) = OP_STI
    /\ PCRelative = MR_KBSR
    /\ ChangedCells = {MR_KBSR, StoreAddress}
    /\ StoreAddress # MR_KBSR
    /\ regs[R_COND] = prev.regs[R_COND]

\* Memory as the fetch of the last instruction left it (a fetch from KBSR
\* polls the keyboard).
MemoryAfterFetch == mem_read(prev.memory, prev.io, prev.regs[R_PC]).memory

\* C18: BR sets PC to (incremented PC + sign-extended PCoffset9) mod 2^16
\* exactly when nzp & COND is non-zero and otherwise leaves the incremented
\* PC; so a BR with nzp = 111 is always taken and one with nzp = 000 never.
\* BR changes no other register and no memory.
C18_BranchOnCond ==
    (Executed /\ Opcode(instr) = OP_BR) =>
        LET nzp == (instr \div 512) % 8
        IN  /\ regs[R_PC] = IF BitAnd(nzp, prev.regs[R_COND]) # 0
                             THEN PCRelative
                             ELSE IncrementedPC
            /\ nzp = 7 => regs[R_PC] = PCRelative
            /\ nzp = 0 => regs[R_PC] = IncrementedPC
            /\ GeneralRegistersKept
            /\ regs[R_COND] = prev.regs[R_COND]
            /\ memory = MemoryAfterFetch

\* A BRn two words back has been taken with COND = NEG.
C18_Witness ==
    /\ Executed
    /\ Opcode(instr) = OP_BR
    /\ (instr \div 512) % 8 = 4
    /\ prev.regs[R_COND] = FL_NEG
    /\ regs[R_PC] = PCRelative
    /\ regs[R_PC] < IncrementedPC

\* The step from this state to the next is an iteration of the loop; instr'
\* is the instruction it executes.
Iterates == nsteps' = nsteps + 1

\* The iteration reads address KBSR through mem_read: as the fetch, as the
\* operand of LD, LDI or LDR, or as the pointer of LDI or STI.
ReadsKbsr ==
    LET op == Opcode(instr')
        a9 == (regs[R_PC] + 1 + SignedField(instr', 9)) % 65536
    IN  \/ regs[R_PC] = MR_KBSR
        \/ op \in {OP_LD, OP_LDI, OP_STI} /\ a9 = MR_KBSR
        \/ op = OP_LDI /\ Mem(memory, a9) = MR_KBSR
        \/ /\ op = OP_LDR
           /\ (regs[(instr' \div 64) % 8] + SignedField(instr', 6)) % 65536
                 = MR_KBSR

\* The bytes typed and not yet consumed, oldest first.
Pending(i) == i.buf \o i.q

\* C19: the keyboard is polled, and a byte consumed into KBDR, only when
\* KBSR is read through the memory interface; no other read and no write
\* polls or consumes input.  A read of KBSR that finds a key ready consumes
\* exactly one input byte and leaves that byte in KBDR.
C19_OnlyKbsrReadsPoll ==
    [][Iterates =>
        /\ polled' > 0 <=> ReadsKbsr
        /\ (~ReadsKbsr /\ ~IsTrap(instr', TRAP_GETC) /\ ~IsTrap(instr', TRAP_IN))
              => io' = io
        /\ (~ReadsKbsr /\ Opcode(instr') \notin {OP_ST, OP_STI, OP_STR})
              => Mem(memory', MR_KBDR) = Mem(memory, MR_KBDR)
        /\ (ReadsKbsr /\ Mem(memory', MR_KBSR) = 32768) =>
              /\ Pending(io) # << >>
              /\ Pending(io') = Tail(Pending(io))
              /\ Mem(memory', MR_KBDR) = Head(Pending(io))
    ]_vars

\* C20: an instruction with opcode RTI or RES does nothing: apart from the
\* PC increment of the fetch, R0..R7, COND and the running flag are unchanged,
\* memory is unchanged unless the fetch itself read KBSR, and the loop goes
\* on with the instruction at the incremented PC.
C20_ReservedOpcodesDoNothing ==
    (Executed /\ Opcode(instr) \in {OP_RTI, OP_RES}) =>
        /\ GeneralRegistersKept
        /\ regs[R_COND] = prev.regs[R_COND]
        /\ regs[R_PC] = IncrementedPC
        /\ running
        /\ prev.regs[R_PC] # MR_KBSR => memory = prev.memory
        /\ memory = MemoryAfterFetch
        /\ pc = "loop" => out = << >>

\* The RTI that a fetch from KBSR yields when a key is ready has been
\* executed, and the loop goes on at xFE01.
C20_Witness ==
    /\ Executed
    /\ Opcode(instr) = OP_RTI
    /\ prev.regs[R_PC] = MR_KBSR
    /\ memory # prev.memory
    /\ regs[R_PC] = MR_KBSR + 1
    /\ running

====
